---- MODULE Spec2Model ----
(***************************************************************************)
(* One run of the GET /folders handler of src/src/index.ts, in its two     *)
(* variants: "inline" (lines 25-238: every cut part is uploaded from the   *)
(* data handler, with pause/resume) and "afterEnd" (lines 268-464: cut     *)
(* parts are collected and uploaded together by the end handler).          *)
(*                                                                         *)
(* An action is one resumption of asynchronous code: the arrival of the    *)
(* answer to a remote call (or a stream event), followed by everything the *)
(* code does until its next await, the issue of the next remote call       *)
(* included.  The blob store answers every call with success, with a       *)
(* success that lacks an optional field, or with an error.                 *)
(*                                                                         *)
(* Sizes are counted in units of one range window: streamObjectSize is one *)
(* unit and partSize is five of them, as in the source.  The bytes of the  *)
(* archive stream are named by their position 1, 2, 3, ... in the stream,  *)
(* so that a lost, repeated or misplaced byte shows.                       *)
(***************************************************************************)
EXTENDS Integers, Sequences, FiniteSets, TLC

\* ---------------------------------------------------------------- bounds
\* list requests answered in one run (the listing loop has no bound of its own)
MaxListCalls == 3
\* GetObject requests answered in one run
MaxGets == 7
\* largest chunk, in units, that one "data" event carries
MaxChunk == 3
\* most bytes, in units, the pipe holds back when the archive library reports
\* that it has ended
MaxPiped == 2

\* ------------------------------------------------------ program constants
streamObjectSize == 1
partSize == streamObjectSize * 5

\* what parseInt gives for text that does not start with a number
NaN == -7

VARIABLES
  variant,            \* "inline" or "afterEnd"
  listing,            \* the store: the pages of the source prefix
  pc,                 \* where the request handler is suspended
  objects,            \* const objects = []
  listCalls,          \* the list requests issued, by continuation token
  listFailed,         \* the catch block of the listing loop has run
  res,                \* the status codes passed to res.status(..).json(..)
  calls,              \* GetObject / CreateMultipartUpload requests issued
  fileIdx,            \* position of the for..of loop in the fetched list
  fileRangeAndLength, \* let fileRangeAndLength
  gets,               \* number of GetObject requests issued so far
  appended,           \* the archive.append calls made, in order
  delivered,          \* bytes handed to the "data" handler so far
  finalizeCalled,     \* archive.finalize() has been invoked
  buffer,             \* let buffer (its chunks concatenated)
  parts,              \* const parts (inline) / parts of Promise.all (afterEnd)
  uploadBodyParts,    \* const uploadBodyParts (afterEnd)
  paused,             \* passThrough.pause() is in effect
  dataUpload,         \* the UploadPart awaited by the data handler
  sinkPc,             \* where the "end" handler is suspended
  pending,            \* afterEnd: part numbers whose upload is unanswered
  etags,              \* afterEnd: the ETag obtained for each answered part
  sinkCalls,          \* UploadPart/Complete/Abort/PutObject requests issued
  cuts,               \* the part bodies the data handler has cut, in order
  sessionState,       \* the store: state of the multipart session
  sessionParts,       \* the store: body kept under each part number
  destObject          \* the store: body of a PutObject that succeeded

vars == <<variant, listing, pc, objects, listCalls, listFailed, res, calls,
          fileIdx, fileRangeAndLength, gets, appended, delivered,
          finalizeCalled, buffer, parts, uploadBodyParts, paused, dataUpload,
          sinkPc, pending, etags, sinkCalls, cuts, sessionState, sessionParts,
          destObject>>

handlerVars == <<pc, objects, listCalls, listFailed, res, calls, fileIdx,
                 fileRangeAndLength, gets, appended, finalizeCalled>>
sinkVars == <<buffer, parts, uploadBodyParts, paused, dataUpload, sinkPc,
              pending, etags, sinkCalls, cuts, delivered>>
storeVars == <<sessionState, sessionParts, destObject>>

\* ---------------------------------------------------------------- helpers
Range(s) == {s[i] : i \in DOMAIN s}

RECURSIVE Concat(_)
\* Buffer.concat over a list of buffers
Concat(ss) == IF ss = <<>> THEN <<>> ELSE Head(ss) \o Concat(Tail(ss))

\* the stream bytes at positions a .. b
Bytes(a, b) == [i \in 1..(b - a + 1) |-> a + i - 1]

Min(a, b) == IF a < b THEN a ELSE b

\* -------------------------------------------------------- the source store
\* An object descriptor of a list page.  Key is the list of path segments of
\* the key ("dir/a" is <<"dir", "a">>; <<>> is a missing key).
Obj(key, size) == [Key |-> key, Size |-> size]

objA == Obj(<<"dir", "a">>, 2)
objB == Obj(<<"dir", "b">>, 4)
objC == Obj(<<"dir", "c">>, 1)
objZ == Obj(<<"dir", "z">>, 0)
objN == Obj(<<>>, 1)

\* the listings a run may meet, each a sequence of pages
Listings ==
  { <<>>,
    << <<objZ>> >>,
    << <<objC>> >>,
    << <<objZ, objA, objC>> >>,
    << <<objA, objB>> >>,
    << <<objN, objC, objA>> >>,
    << <<objC>>, <<objA>> >> }

\* the bytes of a source object: byte i of the object with key k is <<k, i>>
ObjectBytes(o) == [i \in 1..o.Size |-> <<o.Key, i>>]

\* ListObjectsV2 as the store answers it: the page after the one the
\* continuation token names (token 0: no token, the first page)
ListPage(token) ==
  IF token + 1 \in DOMAIN listing
  THEN [Contents |-> listing[token + 1],
        IsTruncated |-> token + 1 < Len(listing),
        NextContinuationToken |-> token + 1]
  ELSE [Contents |-> <<>>, IsTruncated |-> FALSE, NextContinuationToken |-> 0]

\* GetObject with a byte range as the store answers it when it honours the
\* range: the bytes from..min(to, size-1) and "bytes from-end/size"
ObjectOf(key) ==
  CHOOSE o \in UNION {Range(listing[p]) : p \in DOMAIN listing} : o.Key = key

RangeSatisfiable(req) == req.from < ObjectOf(req.key).Size

GetObjectResponse(req) ==
  LET o == ObjectOf(req.key)
      last == Min(req.to, o.Size - 1)
  IN [Body |-> SubSeq(ObjectBytes(o), req.from + 1, last + 1),
      ContentRange |-> [unit |-> "bytes", first |-> req.from, last |-> last,
                        size |-> o.Size]]

\* ------------------------------------------------------------ the archive
\* The encoder is a black box: an entry costs its body plus a header, the
\* footer is written by finalize().
EntryOverhead == 1
FooterLen == 1

RECURSIVE EntryBytes(_)
EntryBytes(es) ==
  IF es = <<>> THEN 0
  ELSE EntryOverhead + Len(Head(es).body) + EntryBytes(Tail(es))

\* bytes the archive has emitted into the pipe so far
Produced == EntryBytes(appended) + (IF finalizeCalled THEN FooterLen ELSE 0)

\* ------------------------------------------------------------ the handler
Call(op, key, from, to) == [op |-> op, key |-> key, from |-> from, to |-> to]

\* the token a list request carries: the command is built from Bucket,
\* Prefix and MaxKeys alone, whatever the previous response said
ListToken(response) == 0

\* objects.filter((object) => object.Size !== 0)
filteredObjects == SelectSeq(objects, LAMBDA o : o.Size # 0)

\* the list the fetch loop runs over
Files == IF variant = "inline" THEN filteredObjects ELSE objects

\* file.Key.substring(file.Key.lastIndexOf("/") + 1)
Basename(key) == key[Len(key)]

\* a loop that stops at the first file without a key
NextKeyedBreak(files, i) ==
  IF i > Len(files) THEN i
  ELSE IF files[i].Key = <<>> THEN Len(files) + 1
  ELSE i

\* a next range that starts at the last byte already read
NextRangeOverlapping(fr) == [start |-> fr.end, end |-> fr.end + streamObjectSize]

\* a cut taken at the range window size instead of the part size
ReachedStreamObjectSize(buf) == Len(buf) >= streamObjectSize

\* a cut that waits for two part sizes
ReachedTwicePartSize(buf) == Len(buf) >= partSize * 2

RECURSIVE NextKeyed(_, _)
\* if (!file.Key) continue;
NextKeyed(files, i) ==
  IF i > Len(files) THEN i
  ELSE IF files[i].Key = <<>> THEN NextKeyed(files, i + 1)
  ELSE i

\* const nextRange = { start: end + 1, end: end + streamObjectSize }
NextRange(fr) == [start |-> fr.end + 1, end |-> fr.end + streamObjectSize]

\* response.ContentRange.split("/"), range.split("-"), parseInt: the range
\* text is "bytes <first>-<last>", so the start is parsed from "bytes <first>"
ParseContentRange(cr) ==
  [start |-> IF cr.unit = "" THEN cr.first ELSE NaN,
   end |-> cr.last,
   length |-> cr.size]

\* while (fileRangeAndLength.end !== fileRangeAndLength.length - 1)
MoreRanges(fr) == fr.end # fr.length - 1

InitRange == [start |-> -1, end |-> -1, length |-> -1]

\* the statements after the listing loop, up to the next await
AfterListing(objs, r) ==
  /\ objects' = objs
  /\ IF Len(objs) = 0
     THEN /\ res' = Append(r, 400)
          /\ pc' = "returned"
          /\ calls' = calls
     ELSE /\ res' = r
          /\ pc' = "create"
          /\ calls' = Append(calls, Call("CreateMultipartUpload", <<>>, -1, -1))

\* the for..of loop from file i on, up to the next await; apps is the
\* append list at that point
EnterFile(i, apps) ==
  LET j == NextKeyed(Files, i)
  IN /\ fileIdx' = j
     /\ appended' = apps
     /\ IF j > Len(Files)
        THEN /\ finalizeCalled' = TRUE
             /\ pc' = "finalize"
             /\ UNCHANGED <<calls, gets, fileRangeAndLength>>
        ELSE LET nr == NextRange(InitRange)
             IN /\ fileRangeAndLength' = InitRange
                /\ calls' = Append(calls,
                                   Call("GetObject", Files[j].Key, nr.start, nr.end))
                /\ gets' = gets + 1
                /\ pc' = "fetch"
                /\ UNCHANGED finalizeCalled

ListOk ==
  /\ pc = "list"
  /\ Len(listCalls) <= MaxListCalls
  /\ LET response == ListPage(listCalls[Len(listCalls)])
         objs == objects \o response.Contents
     IN IF response.IsTruncated
        THEN /\ objects' = objs
             /\ listCalls' = Append(listCalls, ListToken(response))
             /\ UNCHANGED <<pc, res, calls>>
        ELSE /\ AfterListing(objs, res)
             /\ UNCHANGED listCalls
  /\ UNCHANGED <<variant, listing, listFailed, fileIdx, fileRangeAndLength,
                 gets, appended, finalizeCalled>>
  /\ UNCHANGED <<sinkVars, storeVars>>

ListError ==
  /\ pc = "list"
  /\ Len(listCalls) <= MaxListCalls
  /\ listFailed' = TRUE
  /\ AfterListing(objects, Append(res, 500))
  /\ UNCHANGED <<variant, listing, listCalls, fileIdx, fileRangeAndLength,
                 gets, appended, finalizeCalled>>
  /\ UNCHANGED <<sinkVars, storeVars>>

CreateOk ==
  /\ pc = "create"
  /\ sessionState' = "Open"
  /\ EnterFile(1, appended)
  /\ UNCHANGED <<variant, listing, objects, listCalls, listFailed, res>>
  /\ UNCHANGED <<sinkVars, sessionParts, destObject>>

CreateNoUploadId ==
  /\ pc = "create"
  /\ res' = Append(res, 500)
  /\ pc' = "returned"
  /\ UNCHANGED <<variant, listing, objects, listCalls, listFailed, calls,
                 fileIdx, fileRangeAndLength, gets, appended, finalizeCalled>>
  /\ UNCHANGED <<sinkVars, storeVars>>

CreateError ==
  /\ pc = "create"
  /\ pc' = "rejected"
  /\ UNCHANGED <<variant, listing, objects, listCalls, listFailed, res, calls,
                 fileIdx, fileRangeAndLength, gets, appended, finalizeCalled>>
  /\ UNCHANGED <<sinkVars, storeVars>>

GetOk ==
  /\ pc = "fetch"
  /\ gets <= MaxGets
  /\ LET req == calls[Len(calls)]
     IN /\ RangeSatisfiable(req)
        /\ LET response == GetObjectResponse(req)
               apps == Append(appended, [name |-> Basename(req.key),
                                         body |-> response.Body])
               fr == ParseContentRange(response.ContentRange)
           IN IF MoreRanges(fr)
              THEN LET nr == NextRange(fr)
                   IN /\ fileRangeAndLength' = fr
                      /\ appended' = apps
                      /\ calls' = Append(calls,
                                         Call("GetObject", req.key, nr.start, nr.end))
                      /\ gets' = gets + 1
                      /\ UNCHANGED <<pc, fileIdx, finalizeCalled>>
              ELSE EnterFile(fileIdx + 1, apps)
  /\ UNCHANGED <<variant, listing, objects, listCalls, listFailed, res>>
  /\ UNCHANGED <<sinkVars, storeVars>>

\* if (!response || !response.ContentRange || !response.Body) continue;
GetNoBody ==
  /\ pc = "fetch"
  /\ gets <= MaxGets
  /\ LET req == calls[Len(calls)]
         nr == NextRange(fileRangeAndLength)
     IN IF MoreRanges(fileRangeAndLength)
        THEN /\ calls' = Append(calls, Call("GetObject", req.key, nr.start, nr.end))
             /\ gets' = gets + 1
             /\ UNCHANGED <<pc, fileIdx, fileRangeAndLength, appended,
                            finalizeCalled>>
        ELSE /\ EnterFile(fileIdx + 1, appended)
  /\ UNCHANGED <<variant, listing, objects, listCalls, listFailed, res>>
  /\ UNCHANGED <<sinkVars, storeVars>>

GetError ==
  /\ pc = "fetch"
  /\ gets <= MaxGets
  /\ pc' = "rejected"
  /\ UNCHANGED <<variant, listing, objects, listCalls, listFailed, res, calls,
                 fileIdx, fileRangeAndLength, gets, appended, finalizeCalled>>
  /\ UNCHANGED <<sinkVars, storeVars>>

\* await archive.finalize() resolves; the 200 response follows
FinalizeResolved ==
  /\ pc = "finalize"
  /\ Produced - delivered <= MaxPiped
  /\ res' = Append(res, 200)
  /\ pc' = "returned"
  /\ UNCHANGED <<variant, listing, objects, listCalls, listFailed, calls,
                 fileIdx, fileRangeAndLength, gets, appended, finalizeCalled>>
  /\ UNCHANGED <<sinkVars, storeVars>>

\* --------------------------------------------------- the destination store
\* the ETag the store computes for a part body; NoETag is a response that
\* carries none
ETagOf(body) == <<"etag", body[1], Len(body)>>
NoETag == <<>>

UploadOutcomes == {"etag", "noetag", "error"}

\* the store keeps the body of every UploadPart it answers without error
StorePart(n, body) ==
  [i \in DOMAIN sessionParts \cup {n} |->
     IF i = n THEN body ELSE sessionParts[i]]

\* CompleteMultipartUpload is accepted for a non-empty list of stored parts,
\* each with its ETag, in ascending order
CompleteAccepted(ps) ==
  /\ Len(ps) > 0
  /\ \A i \in DOMAIN ps :
       /\ ps[i].PartNumber \in DOMAIN sessionParts
       /\ ps[i].ETag = ETagOf(sessionParts[ps[i].PartNumber])
  /\ \A i, j \in DOMAIN ps : i < j => ps[i].PartNumber < ps[j].PartNumber

\* --------------------------------------------------------------- the sink
SinkCall(op, n, body, ps) ==
  [op |-> op, PartNumber |-> n, Body |-> body, Parts |-> ps]

UploadPartCall(n, body) == SinkCall("UploadPart", n, body, <<>>)
CompleteCall(ps) == SinkCall("CompleteMultipartUpload", 0, <<>>, ps)
AbortCall == SinkCall("AbortMultipartUpload", 0, <<>>, <<>>)
PutCall(body) == SinkCall("PutObject", 0, body, <<>>)

None == SinkCall("none", 0, <<>>, <<>>)

Part(n, etag) == [PartNumber |-> n, ETag |-> etag]

\* etag && parts.push({ PartNumber: parts.length + 1, ETag: etag })
PushPart(ps, etag) ==
  IF etag # NoETag THEN Append(ps, Part(Len(ps) + 1, etag)) ELSE ps

\* a branch that treats an empty parts list as one with parts
NonEmptyAlways(list) == Len(list) >= 0

\* if (parts.length > 0) / if (uploadBodyParts.length > 0)
NonEmpty(list) == Len(list) > 0

\* if (currentBufferSize >= partSize)
ReachedPartSize(buf) == Len(buf) >= partSize

\* PartNumber: parts.length + 1
NextPartNumber(ps) == Len(ps) + 1

\* a data handler that awaits the upload with the stream left flowing
NoPause == FALSE

\* passThrough.pause() before the await of the UploadPart
PauseBeforeUpload == TRUE

\* passThrough.on("data", ...) for a chunk of k bytes
Data(k) ==
  /\ sinkPc = "idle"
  /\ ~paused
  /\ k <= Produced - delivered
  /\ delivered' = delivered + k
  /\ LET buf == buffer \o Bytes(delivered + 1, delivered + k)
     IN IF ReachedPartSize(buf)
        THEN /\ buffer' = <<>>
             /\ cuts' = Append(cuts, buf)
             /\ IF variant = "inline"
                THEN /\ dataUpload' = UploadPartCall(NextPartNumber(parts), buf)
                     /\ sinkCalls' = Append(sinkCalls, dataUpload')
                     /\ paused' = PauseBeforeUpload
                     /\ UNCHANGED uploadBodyParts
                ELSE /\ uploadBodyParts' = Append(uploadBodyParts, buf)
                     /\ UNCHANGED <<dataUpload, sinkCalls, paused>>
        ELSE /\ buffer' = buf
             /\ UNCHANGED <<cuts, dataUpload, sinkCalls, paused, uploadBodyParts>>
  /\ UNCHANGED <<parts, sinkPc, pending, etags>>
  /\ UNCHANGED <<variant, listing, handlerVars, storeVars>>

\* the answer to the UploadPart the data handler awaits (inline)
DataUploadAnswer(outcome) ==
  /\ dataUpload # None
  /\ dataUpload' = None
  /\ IF outcome = "error"
     THEN UNCHANGED <<parts, paused, sessionParts>>
     ELSE /\ sessionParts' = StorePart(dataUpload.PartNumber, dataUpload.Body)
          /\ parts' = PushPart(parts, IF outcome = "etag"
                                      THEN ETagOf(dataUpload.Body) ELSE NoETag)
          /\ paused' = FALSE
  /\ UNCHANGED <<buffer, uploadBodyParts, sinkPc, pending, etags, sinkCalls,
                 cuts, delivered, sessionState, destObject>>
  /\ UNCHANGED <<variant, listing, handlerVars>>

\* an "end" handler that is run again after it has finished
EndEmittedAgain ==
  /\ sinkPc \in {"idle", "done"}
  /\ ~paused
  /\ finalizeCalled
  /\ delivered = Produced

\* the "end" event is emitted once the stream has ended and is drained
EndEmitted ==
  /\ sinkPc = "idle"
  /\ ~paused
  /\ finalizeCalled
  /\ delivered = Produced

\* passThrough.on("end", ...) of the inline variant, up to its first await
EndInline ==
  /\ variant = "inline"
  /\ EndEmitted
  /\ IF NonEmpty(parts)
     THEN IF Len(buffer) > 0
          THEN /\ sinkCalls' = Append(sinkCalls,
                                      UploadPartCall(NextPartNumber(parts), buffer))
               /\ sinkPc' = "remainder"
          ELSE /\ sinkCalls' = Append(sinkCalls, CompleteCall(parts))
               /\ sinkPc' = "complete"
     ELSE /\ sinkCalls' = Append(sinkCalls, AbortCall)
          /\ sinkPc' = "abort"
  /\ UNCHANGED <<buffer, parts, uploadBodyParts, paused, dataUpload, pending,
                 etags, cuts, delivered>>
  /\ UNCHANGED <<variant, listing, handlerVars, storeVars>>

\* the answer to the remainder's UploadPart (inline); on an error the
\* wrapping promise is never resolved
RemainderAnswer(outcome) ==
  /\ sinkPc = "remainder"
  /\ LET req == sinkCalls[Len(sinkCalls)]
     IN IF outcome = "error"
        THEN /\ sinkPc' = "hung"
             /\ UNCHANGED <<parts, sinkCalls, sessionParts>>
        ELSE /\ sessionParts' = StorePart(req.PartNumber, req.Body)
             /\ parts' = PushPart(parts, IF outcome = "etag"
                                         THEN ETagOf(req.Body) ELSE NoETag)
             /\ sinkCalls' = Append(sinkCalls, CompleteCall(parts'))
             /\ sinkPc' = "complete"
  /\ UNCHANGED <<buffer, uploadBodyParts, paused, dataUpload, pending, etags,
                 cuts, delivered, sessionState, destObject>>
  /\ UNCHANGED <<variant, listing, handlerVars>>

\* uploadBodyParts.map((partBody, index) => ... PartNumber: index + 1 ...)
PartNumberOf(index) == index + 1

UploadAll(ubp) == [i \in DOMAIN ubp |-> UploadPartCall(PartNumberOf(i - 1), ubp[i])]

\* passThrough.on("end", ...) of the afterEnd variant, up to its first await
EndAfterEnd ==
  /\ variant = "afterEnd"
  /\ EndEmitted
  /\ IF NonEmpty(uploadBodyParts)
     THEN LET ubp == IF Len(buffer) > 0
                     THEN Append(uploadBodyParts, buffer) ELSE uploadBodyParts
          IN /\ uploadBodyParts' = ubp
             /\ sinkCalls' = sinkCalls \o UploadAll(ubp)
             /\ pending' = {PartNumberOf(i - 1) : i \in DOMAIN ubp}
             /\ sinkPc' = "uploads"
     ELSE /\ sinkCalls' = Append(sinkCalls, AbortCall)
          /\ sinkPc' = "abort"
          /\ UNCHANGED <<uploadBodyParts, pending>>
  /\ UNCHANGED <<buffer, parts, paused, dataUpload, etags, cuts, delivered>>
  /\ UNCHANGED <<variant, listing, handlerVars, storeVars>>

\* the answer to one of the concurrent UploadPart calls (afterEnd);
\* Promise.all resolves with the results in part order once all are in, and
\* rejects on the first error
PartAnswer(n, outcome) ==
  /\ n \in pending
  /\ pending' = pending \ {n}
  /\ LET req == CHOOSE c \in Range(sinkCalls) :
                  c.op = "UploadPart" /\ c.PartNumber = n
     IN IF outcome = "error"
        THEN /\ sinkPc' = IF sinkPc = "uploads" THEN "rejected" ELSE sinkPc
             /\ UNCHANGED <<etags, parts, sinkCalls, sessionParts>>
        ELSE /\ sessionParts' = StorePart(n, req.Body)
             /\ etags' = [i \in DOMAIN etags \cup {n} |->
                            IF i = n
                            THEN (IF outcome = "etag" THEN ETagOf(req.Body)
                                  ELSE NoETag)
                            ELSE etags[i]]
             /\ IF pending' = {} /\ sinkPc = "uploads"
                THEN /\ parts' = [i \in 1..Len(uploadBodyParts) |->
                                    Part(PartNumberOf(i - 1),
                                         etags'[PartNumberOf(i - 1)])]
                     /\ sinkCalls' = Append(sinkCalls, CompleteCall(parts'))
                     /\ sinkPc' = "complete"
                ELSE UNCHANGED <<parts, sinkCalls, sinkPc>>
  /\ UNCHANGED <<buffer, uploadBodyParts, paused, dataUpload, cuts, delivered,
                 sessionState, destObject>>
  /\ UNCHANGED <<variant, listing, handlerVars>>

\* the store's answer to CompleteMultipartUpload
CompleteAnswer(ok) ==
  /\ sinkPc = "complete"
  /\ LET req == sinkCalls[Len(sinkCalls)]
     IN IF ok
        THEN /\ CompleteAccepted(req.Parts)
             /\ sessionState' = "Completed"
             /\ destObject' = Concat([i \in DOMAIN req.Parts |->
                                        sessionParts[req.Parts[i].PartNumber]])
             /\ sinkPc' = "done"
        ELSE /\ sinkPc' = "rejected"
             /\ UNCHANGED <<sessionState, destObject>>
  /\ UNCHANGED <<buffer, parts, uploadBodyParts, paused, dataUpload, pending,
                 etags, sinkCalls, cuts, delivered, sessionParts>>
  /\ UNCHANGED <<variant, listing, handlerVars>>

\* the store's answer to AbortMultipartUpload; PutObject follows a success
AbortAnswer(ok) ==
  /\ sinkPc = "abort"
  /\ IF ok
     THEN /\ sessionState' = "Aborted"
          /\ sinkCalls' = Append(sinkCalls, PutCall(buffer))
          /\ sinkPc' = "put"
     ELSE /\ sinkPc' = "rejected"
          /\ UNCHANGED <<sessionState, sinkCalls>>
  /\ UNCHANGED <<buffer, parts, uploadBodyParts, paused, dataUpload, pending,
                 etags, cuts, delivered, sessionParts, destObject>>
  /\ UNCHANGED <<variant, listing, handlerVars>>

\* the store's answer to PutObject
PutAnswer(ok) ==
  /\ sinkPc = "put"
  /\ IF ok
     THEN /\ destObject' = sinkCalls[Len(sinkCalls)].Body
          /\ sinkPc' = "done"
     ELSE /\ sinkPc' = "rejected"
          /\ UNCHANGED destObject
  /\ UNCHANGED <<buffer, parts, uploadBodyParts, paused, dataUpload, pending,
                 etags, sinkCalls, cuts, delivered, sessionState, sessionParts>>
  /\ UNCHANGED <<variant, listing, handlerVars>>

\* ------------------------------------------------------ the specification
Init ==
  /\ variant \in {"inline", "afterEnd"}
  /\ listing \in Listings
  /\ pc = "list"
  /\ objects = <<>>
  /\ listCalls = <<0>>
  /\ listFailed = FALSE
  /\ res = <<>>
  /\ calls = <<>>
  /\ fileIdx = 0
  /\ fileRangeAndLength = InitRange
  /\ gets = 0
  /\ appended = <<>>
  /\ delivered = 0
  /\ finalizeCalled = FALSE
  /\ buffer = <<>>
  /\ parts = <<>>
  /\ uploadBodyParts = <<>>
  /\ paused = FALSE
  /\ dataUpload = None
  /\ sinkPc = "idle"
  /\ pending = {}
  /\ etags = <<>>
  /\ sinkCalls = <<>>
  /\ cuts = <<>>
  /\ sessionState = "none"
  /\ sessionParts = <<>>
  /\ destObject = <<>>

Next ==
  \/ ListOk
  \/ ListError
  \/ CreateOk
  \/ CreateNoUploadId
  \/ CreateError
  \/ GetOk
  \/ GetNoBody
  \/ GetError
  \/ FinalizeResolved
  \/ \E k \in 1..MaxChunk : Data(k)
  \/ \E outcome \in UploadOutcomes : DataUploadAnswer(outcome)
  \/ EndInline
  \/ \E outcome \in UploadOutcomes : RemainderAnswer(outcome)
  \/ EndAfterEnd
  \/ \E n \in pending, outcome \in UploadOutcomes : PartAnswer(n, outcome)
  \/ \E ok \in BOOLEAN : CompleteAnswer(ok)
  \/ \E ok \in BOOLEAN : AbortAnswer(ok)
  \/ \E ok \in BOOLEAN : PutAnswer(ok)

Spec == Init /\ [][Next]_vars

\* ------------------------------------------------------------- the claims
HasCall(log, op) == \E i \in DOMAIN log : log[i].op = op
CountCalls(log, op) == Cardinality({i \in DOMAIN log : log[i].op = op})

RECURSIVE AscendingConcat(_)
\* the bodies the store keeps for the part numbers in S, in ascending order
AscendingConcat(S) ==
  IF S = {} THEN <<>>
  ELSE LET m == CHOOSE x \in S : \A y \in S : x <= y
       IN sessionParts[m] \o AscendingConcat(S \ {m})

\* the whole byte sequence the archive stream has emitted
ArchiveStream == Bytes(1, Produced)

\* C1: once CompleteMultipartUpload is issued, the bodies stored in the
\* session, concatenated in ascending part-number order, are exactly the
\* bytes the archive stream emitted.
C1_PartsAreTheStream ==
  HasCall(sinkCalls, "CompleteMultipartUpload")
    => AscendingConcat(DOMAIN sessionParts) = ArchiveStream

\* C2: the 200 response is sent only after the upload sink has reached its
\* successful end (CompleteMultipartUpload or PutObject acknowledged).
C2_SuccessAfterSinkDone ==
  200 \in Range(res) => sinkPc = "done"

\* the stream has ended and no part was ever cut from it
EndedWithoutCut == sinkPc # "idle" /\ cuts = <<>>

\* C3 as stated: when the stream ends without a cut part, the end handler
\* ends having issued AbortMultipartUpload and then one PutObject of the
\* whole archive, and the session is not left Open.
C3_AbortThenPutAlways ==
  (EndedWithoutCut /\ sinkPc \in {"done", "rejected"})
    => /\ sinkCalls = <<AbortCall, PutCall(ArchiveStream)>>
       /\ sessionState = "Aborted"

\* C3 amended: when the stream ends without a cut part, AbortMultipartUpload
\* is the first call of the end handler and CompleteMultipartUpload is never
\* issued; once the store has acknowledged the abort, exactly one PutObject
\* of the whole archive has been issued and nothing else; while the abort is
\* unanswered or has failed, no PutObject is issued and the session is Open.
C3_AbortThenPutOnAck ==
  EndedWithoutCut
    => /\ sinkCalls # <<>> /\ sinkCalls[1] = AbortCall
       /\ ~HasCall(sinkCalls, "CompleteMultipartUpload")
       /\ ~HasCall(sinkCalls, "UploadPart")
       /\ IF sessionState = "Aborted"
          THEN /\ sinkCalls = <<AbortCall, PutCall(ArchiveStream)>>
               /\ sinkPc \in {"put", "done", "rejected"}
          ELSE /\ sinkCalls = <<AbortCall>>
               /\ sessionState = "Open"
               /\ sinkPc \in {"abort", "rejected"}
       /\ (sinkPc = "done" => destObject = ArchiveStream)

C3_Witness ==
  /\ EndedWithoutCut
  /\ sinkPc = "done"
  /\ sinkCalls = <<AbortCall, PutCall(ArchiveStream)>>
  /\ Produced > FooterLen

\* C4: CompleteMultipartUpload and AbortMultipartUpload are never both issued
\* for the session, and each is issued at most once.
C4_OneTerminalCall ==
  /\ CountCalls(sinkCalls, "CompleteMultipartUpload") <= 1
  /\ CountCalls(sinkCalls, "AbortMultipartUpload") <= 1
  /\ ~(/\ HasCall(sinkCalls, "CompleteMultipartUpload")
       /\ HasCall(sinkCalls, "AbortMultipartUpload"))

C4_Witness ==
  /\ sessionState = "Completed"
  /\ CountCalls(sinkCalls, "CompleteMultipartUpload") = 1
  /\ sinkPc = "done"

\* an UploadPart call has been answered with an error: in the data handler
\* (the stream stays paused), for the remainder, or in Promise.all
UploadPartFailed ==
  \/ paused /\ dataUpload = None
  \/ sinkPc = "hung"
  \/ /\ sinkPc = "rejected"
     /\ sinkCalls[Len(sinkCalls)].op = "UploadPart"

\* C5: when an UploadPart call has failed, AbortMultipartUpload has been
\* issued for the session.
C5_AbortOnPartFailure ==
  UploadPartFailed => HasCall(sinkCalls, "AbortMultipartUpload")

\* a GetObject call has been answered with an error
GetObjectFailed ==
  /\ pc = "rejected"
  /\ calls[Len(calls)].op = "GetObject"

\* C6: when a GetObject call has failed, AbortMultipartUpload has been issued
\* for the session that was created before the fetch loop.
C6_AbortOnFetchFailure ==
  GetObjectFailed => HasCall(sinkCalls, "AbortMultipartUpload")

\* C7: when a list request has failed, the only response is the 500 of the
\* listing error and no CreateMultipartUpload (nor any later call) is issued.
C7_ListErrorShortCircuits ==
  listFailed
    => /\ res = <<500>>
       /\ calls = <<>>
       /\ sinkCalls = <<>>

\* C8: when the listing has succeeded and no listed object has a size other
\* than 0, the outcome is the 400 "No objects found" and no
\* CreateMultipartUpload is issued.
C8_EmptyFilteredSetIsNoObjects ==
  (pc # "list" /\ ~listFailed /\ filteredObjects = <<>>)
    => /\ res = <<400>>
       /\ ~HasCall(calls, "CreateMultipartUpload")

\* C9: over a listing of two or more pages, every list request after the
\* first carries the continuation token of the previous response, no more
\* requests are issued than there are pages, and the accumulated objects are
\* the pages' objects, each once, in page order.
C9_PagesChainedByToken ==
  (Len(listing) >= 2 /\ ~listFailed)
    => /\ Len(listCalls) <= Len(listing)
       /\ \A i \in 2..Len(listCalls) :
            listCalls[i] = ListPage(listCalls[i - 1]).NextContinuationToken
       /\ \E n \in 0..Len(listing) : objects = Concat(SubSeq(listing, 1, n))

\* every file the fetch loop was to fetch has been read to its last range,
\* and nothing of the loop is outstanding
FetchLoopOver ==
  /\ pc \in {"finalize", "returned"}
  /\ fileIdx > Len(Files)
  /\ CountCalls(calls, "GetObject") = gets
  /\ \A i \in DOMAIN Files :
       Files[i].Key # <<>>
         => \E e \in Range(appended) :
              /\ e.name = Basename(Files[i].Key)
              /\ e.body # <<>>
              /\ e.body[Len(e.body)] = <<Files[i].Key, Files[i].Size>>

\* C10: archive.finalize() is invoked only once the fetch loop is over (every
\* scheduled file fetched to its last byte and appended), and no
\* archive.append is made after finalize() has been invoked.
C10_FinalizeAfterAllAppends ==
  /\ [](finalizeCalled => FetchLoopOver)
  /\ [][finalizeCalled => appended' = appended]_vars

C10_Witness ==
  /\ finalizeCalled
  /\ Len(appended) >= 3
  /\ \E i \in DOMAIN Files : Files[i].Key = <<>>

\* C11: the archive receives no more than one entry per file name: an object
\* read as several range fragments is appended once, with all its bytes.
C11_OneEntryPerObject ==
  ~listFailed
    => \A i, j \in DOMAIN appended :
         appended[i].name = appended[j].name => i = j

\* the UploadPart requests issued, in order
UploadCalls == SelectSeq(sinkCalls, LAMBDA c : c.op = "UploadPart")

\* the CompleteMultipartUpload request, once issued
TheCompleteCall ==
  CHOOSE c \in Range(sinkCalls) : c.op = "CompleteMultipartUpload"

\* C12: the Parts of CompleteMultipartUpload list every part uploaded in the
\* session, numbered 1..n in ascending order, each with the ETag the store
\* returned for its body (or none, where the store returned none).
C12_PartsListEveryUpload ==
  HasCall(sinkCalls, "CompleteMultipartUpload")
    => LET ps == TheCompleteCall.Parts
       IN /\ Len(ps) = Len(UploadCalls)
          /\ \A i \in DOMAIN ps :
               /\ ps[i].PartNumber = i
               /\ UploadCalls[i].PartNumber = i
               /\ ps[i].ETag \in {ETagOf(UploadCalls[i].Body), NoETag}

\* the data handler of the inline variant awaits an UploadPart
DataUploadPending == variant = "inline" /\ dataUpload # None

\* C13: in the inline variant the stream is paused while the data handler
\* awaits its UploadPart: until the answer arrives no chunk is handed to the
\* data handler and the end handler does not start, the stream is resumed
\* only by that answer, and no second UploadPart is in flight.
C13_PausedWhileUploading ==
  /\ [](DataUploadPending => paused /\ sinkPc = "idle")
  /\ [][DataUploadPending
          => /\ delivered' = delivered
             /\ buffer' = buffer
             /\ sinkPc' = sinkPc
             /\ sinkCalls' = sinkCalls
             /\ dataUpload' \in {dataUpload, None}]_vars
  /\ [][(paused /\ ~paused') => (dataUpload # None /\ dataUpload' = None)]_vars

C13_Witness ==
  /\ DataUploadPending
  /\ paused
  /\ delivered < Produced
  /\ Len(parts) >= 1

\* the GetObject requests issued, in order
GetCalls == SelectSeq(calls, LAMBDA c : c.op = "GetObject")

\* C14: after a response without body or content range the fetch loop goes
\* on to the next object: the same range of the same object is not requested
\* twice in a row.
C14_MissingBodySkipsObject ==
  ~listFailed
    => \A i \in 1..(Len(GetCalls) - 1) : GetCalls[i + 1] # GetCalls[i]

\* the store has honoured every range request so far: no request was
\* repeated after a response without body, and the listing was read once
RangesHonoured ==
  /\ ~listFailed
  /\ \A i \in 1..(Len(GetCalls) - 1) : GetCalls[i + 1] # GetCalls[i]

\* C15: for objects of size >= 1 and a store that honours ranges, every
\* request asks for one window inside the object; the first request for an
\* object starts at byte 0, every later one at the byte after the end the
\* previous response reported, and none follows the response whose end is
\* the length minus one; a request is outstanding only while that end has
\* not been reported.
C15_SequentialRanges ==
  RangesHonoured
    => /\ \A i \in DOMAIN GetCalls :
            LET c == GetCalls[i]
                size == ObjectOf(c.key).Size
            IN size >= 1
                 => /\ 0 <= c.from /\ c.from < size
                    /\ c.to = c.from + streamObjectSize - 1
                    /\ IF i > 1 /\ GetCalls[i - 1].key = c.key
                       THEN /\ GetCalls[i - 1].to < size - 1
                            /\ c.from = GetCalls[i - 1].to + 1
                       ELSE c.from = 0
       /\ (pc = "fetch" /\ fileRangeAndLength # InitRange)
            => /\ fileRangeAndLength.end < fileRangeAndLength.length - 1
               /\ GetCalls[Len(GetCalls)].from = fileRangeAndLength.end + 1
       /\ (pc \in {"finalize", "returned"} /\ GetCalls # <<>>)
            => GetCalls[Len(GetCalls)].to
                 >= ObjectOf(GetCalls[Len(GetCalls)].key).Size - 1

C15_Witness ==
  /\ RangesHonoured
  /\ pc = "finalize"
  /\ Len(GetCalls) = 6
  /\ GetCalls[6].key = objB.Key
  /\ GetCalls[6].from = 3
  /\ Len(appended) = 6

C17_NoFetchOfEmptyObjects ==
  /\ \A i \in DOMAIN GetCalls : ObjectOf(GetCalls[i].key).Size # 0
  /\ \A i \in DOMAIN appended : appended[i].body # <<>>

\* C18: at most one response is sent for the request.
C18_AtMostOneResponse == Len(res) <= 1

\* C19: no two UploadPart requests of the session carry the same PartNumber.
C19_DistinctPartNumbers ==
  \A i, j \in DOMAIN UploadCalls :
    UploadCalls[i].PartNumber = UploadCalls[j].PartNumber => i = j

\* C20: of the parts listed in CompleteMultipartUpload, every one but the
\* last has a stored body of at least partSize bytes.
C20_OnlyLastPartIsShort ==
  HasCall(sinkCalls, "CompleteMultipartUpload")
    => LET ps == TheCompleteCall.Parts
       IN \A i \in 1..(Len(ps) - 1) :
            /\ ps[i].PartNumber \in DOMAIN sessionParts
            /\ Len(sessionParts[ps[i].PartNumber]) >= partSize

C20_Witness ==
  /\ HasCall(sinkCalls, "CompleteMultipartUpload")
  /\ LET ps == TheCompleteCall.Parts
     IN /\ Len(ps) = 3
        /\ ps[3].PartNumber \in DOMAIN sessionParts
        /\ Len(sessionParts[ps[3].PartNumber]) < partSize

====
